---- MODULE Spec2Model ----
(***************************************************************************)
(* A model of the CHIP-8 virtual machine of src/src/lib.rs: the Chip8      *)
(* struct, load_program, step, tick_timers and is_sound_on, driven the way *)
(* the front ends (src/src/main.rs) drive it.                              *)
(*                                                                         *)
(* A Rust panic ends the process.  The model keeps the struct as it stood  *)
(* at the moment of the panic (the mutations made before the panicking     *)
(* statement stay) and records the kind of the panic.                      *)
(***************************************************************************)
EXTENDS Integers, Sequences, FiniteSets, TLC

VARIABLES
    proc,       \* position of the driver: "start", "running" or "panicked"
    program,    \* the bytes read from the ROM file, handed to load_program
    emulator,   \* the Chip8 value, NoEmulator before load_program returns
    prev,       \* history: the Chip8 value before the last call
    last_call,  \* history: the last call made, its inputs and its outcome
    panic       \* the kind of the panic that ended the process, or "none"

vars == <<proc, program, emulator, prev, last_call, panic>>

----------------------------------------------------------------------------
(* Program constants.                                                      *)

MemSize == 4096
ProgramStart == 512
FontStart == 80
DisplayWidth == 64
DisplayHeight == 32

Byte == 0..255
RegIdx == 0..15

(* Bounds of the model.                                                    *)

\* step is not taken when a call would make the Vec<u16> stack deeper
MaxStack == 3
\* longest sequence of control-flow words in a generated ROM
MaxFreeLen == 3
\* ROM lengths range this far below and above the capacity of memory
MaxOver == 1

----------------------------------------------------------------------------
(* Bit operations on u8 values, computed bit by bit.                       *)

Pow2(i) == 2 ^ i

Bit(v, i) == (v \div Pow2(i)) % 2

BitAnd(a, b) ==
    LET f[i \in 0..8] ==
            IF i = 8 THEN 0 ELSE Bit(a, i) * Bit(b, i) * Pow2(i) + f[i + 1]
    IN  f[0]

BitOr(a, b) ==
    LET f[i \in 0..8] ==
            IF i = 8 THEN 0
            ELSE (IF Bit(a, i) + Bit(b, i) > 0 THEN Pow2(i) ELSE 0) + f[i + 1]
    IN  f[0]

BitXor(a, b) ==
    LET f[i \in 0..8] ==
            IF i = 8 THEN 0
            ELSE ((Bit(a, i) + Bit(b, i)) % 2) * Pow2(i) + f[i + 1]
    IN  f[0]

wrapping_add(a, b) == (a + b) % 256

wrapping_sub(a, b) == (a - b + 256) % 256

wrapping_add16(a, b) == (a + b) % 65536

----------------------------------------------------------------------------
(* font.rs: sixteen glyphs of five bytes, ZERO .. F.                       *)

FONTS ==
    << <<240, 144, 144, 144, 240>>, <<32, 96, 32, 32, 112>>,
       <<240, 16, 240, 128, 240>>,  <<240, 16, 240, 16, 240>>,
       <<144, 144, 240, 16, 16>>,   <<240, 128, 240, 16, 240>>,
       <<240, 128, 240, 144, 240>>, <<240, 16, 32, 64, 64>>,
       <<240, 144, 240, 144, 240>>, <<240, 144, 240, 16, 240>>,
       <<240, 144, 240, 144, 144>>, <<224, 144, 224, 144, 224>>,
       <<240, 128, 128, 128, 240>>, <<224, 144, 144, 144, 224>>,
       <<240, 128, 240, 128, 240>>, <<240, 128, 240, 128, 128>> >>

----------------------------------------------------------------------------
(* Chip8::load_program.                                                    *)

NoEmulator == [loaded |-> FALSE]

\* display is the set of the <<y, x>> with display[y][x] == true;
\* [[false; 64]; 32] is the empty set
BlankDisplay == {}

\* the guard of the panic at the top of load_program
ProgramTooLarge(prog) == Len(prog) > MemSize - 512

\* load_program with the program copy one byte short (an exclusive range
\* ended at len - 1)
LoadedMemory_ShortCopy(prog) ==
    [a \in 0..(MemSize - 1) |->
        IF a >= FontStart /\ a < FontStart + 5 * 16
        THEN FONTS[((a - FontStart) \div 5) + 1][((a - FontStart) % 5) + 1]
        ELSE IF a >= ProgramStart /\ a < ProgramStart + Len(prog) - 1
        THEN prog[a - ProgramStart + 1]
        ELSE 0]

\* load_program with the font copied to address 0 (the offset FONT_START
\* left out of the destination slice)
LoadedMemory_FontAtZero(prog) ==
    [a \in 0..(MemSize - 1) |->
        IF a < 5 * 16
        THEN FONTS[(a \div 5) + 1][(a % 5) + 1]
        ELSE IF a >= ProgramStart /\ a < ProgramStart + Len(prog)
        THEN prog[a - ProgramStart + 1]
        ELSE 0]

\* memory after the program copy and the font copy (the font is copied last)
LoadedMemory(prog) ==
    [a \in 0..(MemSize - 1) |->
        IF a >= FontStart /\ a < FontStart + 5 * 16
        THEN FONTS[((a - FontStart) \div 5) + 1][((a - FontStart) % 5) + 1]
        ELSE IF a >= ProgramStart /\ a < ProgramStart + Len(prog)
        THEN prog[a - ProgramStart + 1]
        ELSE 0]

load_program(prog) ==
    [ memory      |-> LoadedMemory(prog),
      display     |-> BlankDisplay,
      pc          |-> ProgramStart,
      index_reg   |-> 0,
      stack       |-> <<>>,
      delay_timer |-> 0,
      sound_timer |-> 0,
      registers   |-> [r \in RegIdx |-> 0] ]

----------------------------------------------------------------------------
(* Chip8::tick_timers and Chip8::is_sound_on.                              *)

\* variant of tick_timers: the decrements wrap below zero
tick_timers_Wrapping(self) ==
    [self EXCEPT
        !.delay_timer = wrapping_sub(self.delay_timer, 1),
        !.sound_timer = wrapping_sub(self.sound_timer, 1)]

tick_timers(self) ==
    [self EXCEPT
        !.delay_timer = IF self.delay_timer > 0 THEN self.delay_timer - 1 ELSE 0,
        !.sound_timer = IF self.sound_timer > 0 THEN self.sound_timer - 1 ELSE 0]

\* variant of is_sound_on: the sound stops one tick early
is_sound_on_Early(self) == self.sound_timer > 1

is_sound_on(self) == self.sound_timer > 0

----------------------------------------------------------------------------
(* Chip8::step: fetch and decode.                                          *)

\* the result of a call: the struct afterwards, what the call returned
\* ("Updated", "NotUpdated") or "Panic", and the kind of the panic
Returned(self, display_state) ==
    [chip |-> self, outcome |-> display_state, panic |-> "none"]

Panicked(self, kind) ==
    [chip |-> self, outcome |-> "Panic", panic |-> kind]

\* memory[pc] and memory[pc + 1] are bounds-checked slice reads
FetchInBounds(self) == self.pc + 1 < MemSize

Decode(self) ==
    LET first_byte  == self.memory[self.pc]
        second_byte == self.memory[self.pc + 1]
        inst        == first_byte * 256 + second_byte
    IN  [ inst            |-> inst,
          first_half_byte |-> first_byte \div 16,
          x               |-> first_byte % 16,
          y               |-> second_byte \div 16,
          n               |-> second_byte % 16,
          nn              |-> second_byte,
          nnn             |-> inst % 4096 ]

----------------------------------------------------------------------------
(* Chip8::step: the arms of the match.  s is the struct after pc += 2.     *)

op_00E0(s) == Returned([s EXCEPT !.display = BlankDisplay], "Updated")

\* 00EE taking the oldest return address instead of the newest
op_00EE_Fifo(s) ==
    IF Len(s.stack) = 0
    THEN Panicked(s, "EmptyStack")
    ELSE Returned([s EXCEPT !.pc = s.stack[1], !.stack = Tail(s.stack)],
                  "NotUpdated")

op_00EE(s) ==
    IF Len(s.stack) = 0
    THEN Panicked(s, "EmptyStack")
    ELSE Returned([s EXCEPT !.pc = s.stack[Len(s.stack)],
                            !.stack = SubSeq(s.stack, 1, Len(s.stack) - 1)],
                  "NotUpdated")

arm_0(s, d) ==
    CASE d.nnn = 224 -> op_00E0(s)
      [] d.nnn = 238 -> op_00EE(s)
      [] OTHER       -> Panicked(s, "InvalidInstruction")

op_1NNN(s, d) == Returned([s EXCEPT !.pc = d.nnn], "NotUpdated")

op_2NNN(s, d) ==
    Returned([s EXCEPT !.stack = Append(s.stack, s.pc), !.pc = d.nnn],
             "NotUpdated")

\* the conditional skips: pc += 2 when the condition holds
skip_if(s, cond) ==
    Returned(IF cond THEN [s EXCEPT !.pc = s.pc + 2] ELSE s, "NotUpdated")

op_3XNN(s, d) == skip_if(s, s.registers[d.x] = d.nn)

\* variant of 4XNN with the test of 3XNN: it skips when VX = NN
op_4XNN_SkipsOnEqual(s, d) == skip_if(s, s.registers[d.x] = d.nn)

op_4XNN(s, d) == skip_if(s, s.registers[d.x] # d.nn)

\* the 0x5 arm does not look at the fourth half-byte
op_5XY0(s, d) == skip_if(s, s.registers[d.x] = s.registers[d.y])

op_6XNN(s, d) == Returned([s EXCEPT !.registers[d.x] = d.nn], "NotUpdated")

op_7XNN(s, d) ==
    Returned([s EXCEPT !.registers[d.x] = wrapping_add(s.registers[d.x], d.nn)],
             "NotUpdated")

op_8XY0(s, d) ==
    Returned([s EXCEPT !.registers[d.x] = s.registers[d.y]], "NotUpdated")

op_8XY1(s, d) ==
    Returned([s EXCEPT !.registers[d.x] = BitOr(s.registers[d.x], s.registers[d.y])],
             "NotUpdated")

op_8XY2(s, d) ==
    Returned([s EXCEPT !.registers[d.x] = BitAnd(s.registers[d.x], s.registers[d.y])],
             "NotUpdated")

op_8XY3(s, d) ==
    Returned([s EXCEPT !.registers[d.x] = BitXor(s.registers[d.x], s.registers[d.y])],
             "NotUpdated")

\* 8XY4 with the overflow test written prev_val >= registers[x]
op_8XY4_CarryOnEqual(s, d) ==
    LET prev_val == s.registers[d.x]
        s1 == [s EXCEPT !.registers[d.x] = wrapping_add(prev_val, s.registers[d.y])]
    IN  Returned([s1 EXCEPT !.registers[15] =
                        IF prev_val >= s1.registers[d.x] THEN 1 ELSE 0],
                 "NotUpdated")

\* registers[x] is written first, then compared with prev_val, then VF is set
op_8XY4(s, d) ==
    LET prev_val == s.registers[d.x]
        s1 == [s EXCEPT !.registers[d.x] = wrapping_add(prev_val, s.registers[d.y])]
    IN  Returned([s1 EXCEPT !.registers[15] =
                        IF prev_val > s1.registers[d.x] THEN 1 ELSE 0],
                 "NotUpdated")

\* variant of 8XY5 that also produces a borrow flag: VF = 1 when VX >= VY
op_8XY5_Borrow(s, d) ==
    LET s1 == [s EXCEPT !.registers[d.x] =
                    wrapping_sub(s.registers[d.x], s.registers[d.y])]
    IN  Returned([s1 EXCEPT !.registers[15] =
                        IF s.registers[d.x] >= s.registers[d.y] THEN 1 ELSE 0],
                 "NotUpdated")

op_8XY5(s, d) ==
    Returned([s EXCEPT !.registers[d.x] =
                    wrapping_sub(s.registers[d.x], s.registers[d.y])],
             "NotUpdated")

op_8XY7(s, d) ==
    Returned([s EXCEPT !.registers[d.x] =
                    wrapping_sub(s.registers[d.y], s.registers[d.x])],
             "NotUpdated")

\* variant of 8XY6 with the original shift: VX is set to VY before shifting
op_8XY6_FromVY(s, d) ==
    LET s0 == [s EXCEPT !.registers[d.x] = s.registers[d.y]]
        s1 == [s0 EXCEPT !.registers[15] = BitAnd(s0.registers[d.x], 1)]
    IN  Returned([s1 EXCEPT !.registers[d.x] = s1.registers[d.x] \div 2],
                 "NotUpdated")

\* VF is written first, then registers[x] is shifted (x may be 0xF)
op_8XY6(s, d) ==
    LET s1 == [s EXCEPT !.registers[15] = BitAnd(s.registers[d.x], 1)]
    IN  Returned([s1 EXCEPT !.registers[d.x] = s1.registers[d.x] \div 2],
                 "NotUpdated")

\* VF is written first with registers[x] & 0x80, then registers[x] <<= 1
op_8XYE(s, d) ==
    LET s1 == [s EXCEPT !.registers[15] = BitAnd(s.registers[d.x], 128)]
    IN  Returned([s1 EXCEPT !.registers[d.x] = (s1.registers[d.x] * 2) % 256],
                 "NotUpdated")

arm_8(s, d) ==
    CASE d.n = 0  -> op_8XY0(s, d)
      [] d.n = 1  -> op_8XY1(s, d)
      [] d.n = 2  -> op_8XY2(s, d)
      [] d.n = 3  -> op_8XY3(s, d)
      [] d.n = 4  -> op_8XY4(s, d)
      [] d.n = 5  -> op_8XY5(s, d)
      [] d.n = 7  -> op_8XY7(s, d)
      [] d.n = 6  -> op_8XY6(s, d)
      [] d.n = 14 -> op_8XYE(s, d)
      [] OTHER    -> Panicked(s, "InvalidInstruction")

\* the 0x9 arm does not look at the fourth half-byte
op_9XY0(s, d) == skip_if(s, s.registers[d.x] # s.registers[d.y])

op_ANNN(s, d) == Returned([s EXCEPT !.index_reg = d.nnn], "NotUpdated")

\* nnn + V0 is at most 0xFFF + 0xFF: no u16 overflow
op_BNNN(s, d) == Returned([s EXCEPT !.pc = d.nnn + s.registers[0]], "NotUpdated")

\* rnd is the byte rand::random::<u8>() returns
op_CXNN(s, d, rnd) ==
    Returned([s EXCEPT !.registers[d.x] = BitAnd(rnd, d.nn)], "NotUpdated")

----------------------------------------------------------------------------
(* DXYN.  The loops of the draw arm, with their breaks.                    *)

\* the bit loop drawing with OR instead of XOR: a lit pixel under a set bit
\* stays lit (the collision is still flagged)
RECURSIVE draw_bits_Or(_, _, _, _, _)
draw_bits_Or(s, byte, y_coord, x_coord, bit_idx) ==
    IF bit_idx = 8 THEN s
    ELSE
        LET mask == 128 \div Pow2(bit_idx)
            bit  == BitAnd(byte, mask) > 0
            s1   == IF ~bit THEN s
                    ELSE IF <<y_coord, x_coord>> \in s.display
                    THEN [s EXCEPT !.registers[15] = 1]
                    ELSE [s EXCEPT !.display = s.display \cup {<<y_coord, x_coord>>}]
        IN  IF x_coord + 1 = DisplayWidth THEN s1
            ELSE draw_bits_Or(s1, byte, y_coord, x_coord + 1, bit_idx + 1)

\* the inner loop "for bit_idx in 0..8" over one sprite byte
RECURSIVE draw_bits(_, _, _, _, _)
draw_bits(s, byte, y_coord, x_coord, bit_idx) ==
    IF bit_idx = 8 THEN s
    ELSE
        LET mask == 128 \div Pow2(bit_idx)
            bit  == BitAnd(byte, mask) > 0
            s1   == IF ~bit THEN s
                    ELSE IF <<y_coord, x_coord>> \in s.display
                    THEN [s EXCEPT !.display = s.display \ {<<y_coord, x_coord>>},
                                   !.registers[15] = 1]
                    ELSE [s EXCEPT !.display = s.display \cup {<<y_coord, x_coord>>}]
        IN  IF x_coord + 1 = DisplayWidth THEN s1
            ELSE draw_bits(s1, byte, y_coord, x_coord + 1, bit_idx + 1)

\* the outer loop "for byte in bytes"; i counts the bytes already drawn.
\* registers[x] is read again at the start of every row.
RECURSIVE draw_rows(_, _, _, _)
draw_rows(s, d, y_coord, i) ==
    IF i = d.n THEN s
    ELSE
        LET byte    == s.memory[s.index_reg + i]
            x_coord == s.registers[d.x] % DisplayWidth
            s1      == draw_bits(s, byte, y_coord, x_coord, 0)
        IN  IF y_coord + 1 = DisplayHeight THEN s1
            ELSE draw_rows(s1, d, y_coord + 1, i + 1)

\* variant of DXYN that reports Updated only when a pixel changed
op_DXYN_ReportChange(s, d) ==
    LET y_coord == s.registers[d.y] % DisplayHeight
        s0      == [s EXCEPT !.registers[15] = 0]
        s1      == draw_rows(s0, d, y_coord, 0)
    IN  IF s.index_reg + d.n > MemSize
        THEN Panicked(s0, "IndexOutOfBounds")
        ELSE Returned(s1, IF s1.display = s.display THEN "NotUpdated"
                          ELSE "Updated")

\* y_coord is read, VF is reset, then the sprite slice is taken (bounds-checked)
op_DXYN(s, d) ==
    LET y_coord == s.registers[d.y] % DisplayHeight
        s0      == [s EXCEPT !.registers[15] = 0]
    IN  IF s.index_reg + d.n > MemSize
        THEN Panicked(s0, "IndexOutOfBounds")
        ELSE Returned(draw_rows(s0, d, y_coord, 0), "Updated")

----------------------------------------------------------------------------
(* EX9E, EXA1.                                                             *)

\* variant of EX9E that reduces VX to a key number instead of testing it
op_EX9E_Wrapped(s, d, keypresses) ==
    LET vx == s.registers[d.x]
    IN  skip_if(s, keypresses[vx % 16])

op_EX9E(s, d, keypresses) ==
    LET vx == s.registers[d.x]
    IN  skip_if(s, vx < 16 /\ keypresses[vx])

op_EXA1(s, d, keypresses) ==
    LET vx == s.registers[d.x]
    IN  skip_if(s, vx >= 16 \/ ~keypresses[vx])

arm_E(s, d, keypresses) ==
    CASE d.nn = 158 -> op_EX9E(s, d, keypresses)
      [] d.nn = 161 -> op_EXA1(s, d, keypresses)
      [] OTHER      -> Panicked(s, "InvalidInstruction")

----------------------------------------------------------------------------
(* The 0xF arm.                                                            *)

op_FX07(s, d) == Returned([s EXCEPT !.registers[d.x] = s.delay_timer], "NotUpdated")

op_FX15(s, d) == Returned([s EXCEPT !.delay_timer = s.registers[d.x]], "NotUpdated")

op_FX18(s, d) == Returned([s EXCEPT !.sound_timer = s.registers[d.x]], "NotUpdated")

\* VF is set to 1 on wraparound and is not written otherwise
op_FX1E(s, d) ==
    LET prev_index == s.index_reg
        s1 == [s EXCEPT !.index_reg = wrapping_add16(s.index_reg, s.registers[d.x])]
    IN  Returned(IF s1.index_reg < prev_index
                 THEN [s1 EXCEPT !.registers[15] = 1]
                 ELSE s1,
                 "NotUpdated")

\* position returning the last pressed key instead of the first
position_Last(keypresses) ==
    IF \E k \in RegIdx : keypresses[k]
    THEN CHOOSE k \in RegIdx :
            keypresses[k] /\ \A j \in RegIdx : keypresses[j] => j <= k
    ELSE -1

\* keypresses.iter().position(|&pressed| pressed)
position(keypresses) ==
    IF \E k \in RegIdx : keypresses[k]
    THEN CHOOSE k \in RegIdx :
            keypresses[k] /\ \A j \in RegIdx : keypresses[j] => k <= j
    ELSE -1

op_FX0A(s, d, keypresses) ==
    LET idx == position(keypresses)
    IN  Returned(IF idx >= 0
                 THEN [s EXCEPT !.registers[d.x] = idx]
                 ELSE [s EXCEPT !.pc = s.pc - 2],
                 "NotUpdated")

\* variant of FX29 whose range test is off by one
op_FX29_OffByOne(s, d) ==
    LET vx == s.registers[d.x]
    IN  IF vx > 16
        THEN Panicked(s, "InvalidVX")
        ELSE Returned([s EXCEPT !.index_reg = 80 + 5 * vx], "NotUpdated")

op_FX29(s, d) ==
    LET vx == s.registers[d.x]
    IN  IF vx > 15
        THEN Panicked(s, "InvalidVX")
        ELSE Returned([s EXCEPT !.index_reg = 80 + 5 * vx], "NotUpdated")

\* variant of FX33 whose tens digit is not reduced modulo 10
op_FX33_TensNotReduced(s, d) ==
    LET decimal_val == s.registers[d.x]
        ones     == decimal_val % 10
        tens     == decimal_val \div 10
        hundreds == decimal_val \div 100
        i        == s.index_reg
    IN  IF i >= MemSize THEN Panicked(s, "IndexOutOfBounds")
        ELSE LET s1 == [s EXCEPT !.memory[i] = hundreds]
             IN  IF i + 1 >= MemSize THEN Panicked(s1, "IndexOutOfBounds")
                 ELSE LET s2 == [s1 EXCEPT !.memory[i + 1] = tens]
                      IN  IF i + 2 >= MemSize THEN Panicked(s2, "IndexOutOfBounds")
                          ELSE Returned([s2 EXCEPT !.memory[i + 2] = ones],
                                        "NotUpdated")

\* three bounds-checked writes in order: hundreds, tens, ones
op_FX33(s, d) ==
    LET decimal_val == s.registers[d.x]
        ones     == decimal_val % 10
        tens     == (decimal_val \div 10) % 10
        hundreds == decimal_val \div 100
        i        == s.index_reg
    IN  IF i >= MemSize THEN Panicked(s, "IndexOutOfBounds")
        ELSE LET s1 == [s EXCEPT !.memory[i] = hundreds]
             IN  IF i + 1 >= MemSize THEN Panicked(s1, "IndexOutOfBounds")
                 ELSE LET s2 == [s1 EXCEPT !.memory[i + 1] = tens]
                      IN  IF i + 2 >= MemSize THEN Panicked(s2, "IndexOutOfBounds")
                          ELSE Returned([s2 EXCEPT !.memory[i + 2] = ones],
                                        "NotUpdated")

\* "for i in 0..=x": memory[index_reg + i] = registers[i], bounds-checked
RECURSIVE store_loop(_, _, _)
store_loop(s, x, i) ==
    IF i > x THEN Returned(s, "NotUpdated")
    ELSE IF s.index_reg + i >= MemSize THEN Panicked(s, "IndexOutOfBounds")
    ELSE store_loop([s EXCEPT !.memory[s.index_reg + i] = s.registers[i]], x, i + 1)

\* variant of FX55 with an exclusive range ("for i in 0..x"): VX is not stored
op_FX55_Exclusive(s, d) ==
    IF d.x = 0 THEN Returned(s, "NotUpdated") ELSE store_loop(s, d.x - 1, 0)

op_FX55(s, d) == store_loop(s, d.x, 0)

\* "for i in 0..=x": registers[i] = memory[index_reg + i], bounds-checked
RECURSIVE load_loop(_, _, _)
load_loop(s, x, i) ==
    IF i > x THEN Returned(s, "NotUpdated")
    ELSE IF s.index_reg + i >= MemSize THEN Panicked(s, "IndexOutOfBounds")
    ELSE load_loop([s EXCEPT !.registers[i] = s.memory[s.index_reg + i]], x, i + 1)

op_FX65(s, d) == load_loop(s, d.x, 0)

arm_F(s, d, keypresses) ==
    CASE d.nn = 7   -> op_FX07(s, d)
      [] d.nn = 21  -> op_FX15(s, d)
      [] d.nn = 24  -> op_FX18(s, d)
      [] d.nn = 30  -> op_FX1E(s, d)
      [] d.nn = 10  -> op_FX0A(s, d, keypresses)
      [] d.nn = 41  -> op_FX29(s, d)
      [] d.nn = 51  -> op_FX33(s, d)
      [] d.nn = 85  -> op_FX55(s, d)
      [] d.nn = 101 -> op_FX65(s, d)
      [] OTHER      -> Panicked(s, "InvalidInstruction")

----------------------------------------------------------------------------
(* Chip8::step.                                                            *)

\* the match on first_half_byte, entered with pc already advanced
execute(s, d, keypresses, rnd) ==
    CASE d.first_half_byte = 0  -> arm_0(s, d)
      [] d.first_half_byte = 1  -> op_1NNN(s, d)
      [] d.first_half_byte = 2  -> op_2NNN(s, d)
      [] d.first_half_byte = 3  -> op_3XNN(s, d)
      [] d.first_half_byte = 4  -> op_4XNN(s, d)
      [] d.first_half_byte = 5  -> op_5XY0(s, d)
      [] d.first_half_byte = 6  -> op_6XNN(s, d)
      [] d.first_half_byte = 7  -> op_7XNN(s, d)
      [] d.first_half_byte = 8  -> arm_8(s, d)
      [] d.first_half_byte = 9  -> op_9XY0(s, d)
      [] d.first_half_byte = 10 -> op_ANNN(s, d)
      [] d.first_half_byte = 11 -> op_BNNN(s, d)
      [] d.first_half_byte = 12 -> op_CXNN(s, d, rnd)
      [] d.first_half_byte = 13 -> op_DXYN(s, d)
      [] d.first_half_byte = 14 -> arm_E(s, d, keypresses)
      [] d.first_half_byte = 15 -> arm_F(s, d, keypresses)

\* variant of step that also advances the timers after every instruction
step_TicksTimers(self, keypresses, rnd) ==
    IF ~FetchInBounds(self)
    THEN Panicked(self, "IndexOutOfBounds")
    ELSE LET r == execute([self EXCEPT !.pc = self.pc + 2], Decode(self),
                          keypresses, rnd)
         IN  [r EXCEPT !.chip = tick_timers(r.chip)]

\* the fetch panics before pc is advanced when pc or pc + 1 is past memory
step(self, keypresses, rnd) ==
    IF ~FetchInBounds(self)
    THEN Panicked(self, "IndexOutOfBounds")
    ELSE execute([self EXCEPT !.pc = self.pc + 2], Decode(self), keypresses, rnd)

----------------------------------------------------------------------------
(* The inputs: ROM images, key snapshots, random bytes.                    *)

\* a 16-bit instruction word from its four half-bytes
Word(a, b, c, e) == a * 4096 + b * 256 + c * 16 + e

\* the bytes of a sequence of instruction words, high byte first
Assemble(words) ==
    [i \in 1..(2 * Len(words)) |->
        IF i % 2 = 1 THEN words[(i + 1) \div 2] \div 256
                     ELSE words[i \div 2] % 256]

\* the snapshot in which exactly the keys of set ks are pressed
Keys(ks) == [k \in RegIdx |-> k \in ks]

NoKeys == Keys({})

KeySnapshots == {NoKeys, Keys({1, 15})}

RandBytes == {0, 165, 255}

\* register pairs (X, Y) and the values (a, b) a scenario loads into them
RegPairs == {<<0, 1>>, <<2, 2>>, <<15, 1>>, <<1, 15>>}

ValPairs ==
    {<<0, 0>>, <<7, 0>>, <<255, 1>>, <<1, 255>>, <<127, 128>>,
     <<128, 128>>, <<129, 3>>, <<3, 200>>, <<16, 2>>}

\* the instruction under test of a register scenario, for registers X and Y
RegOps(X, Y) ==
    {Word(8, X, Y, n) : n \in 0..15}
    \cup {Word(3, X, 0, 1), Word(4, X, 0, 1), Word(7, X, 0, 2),
          Word(5, X, Y, 0), Word(5, X, Y, 1), Word(9, X, Y, 0), Word(9, X, Y, 3),
          Word(12, X, 15, 15), Word(12, X, 0, 15),
          Word(14, X, 9, 14), Word(14, X, 10, 1), Word(14, X, 0, 0),
          Word(15, X, 0, 7), Word(15, X, 0, 10), Word(15, X, 1, 14),
          Word(15, X, 2, 9), Word(15, X, 0, 0), Word(11, 15, 15, 15)}

\* 6XNN, 6YNN, then the instruction under test
RegScenarios ==
    UNION {{<<Word(6, rp[1], 0, 0) + vp[1], Word(6, rp[2], 0, 0) + vp[2], op>> :
                vp \in ValPairs, op \in RegOps(rp[1], rp[2])} :
           rp \in RegPairs}

\* timers: V0 = v, delay = V0, V1 = w, sound = V1, V2 = delay, then a jump
\* to itself at 0x20A
TimerVals == {0, 1, 3}

TimerScenarios ==
    {<<Word(6, 0, 0, 0) + v, Word(15, 0, 1, 5), Word(6, 1, 0, 0) + w,
       Word(15, 1, 1, 8), Word(15, 2, 0, 7), Word(1, 2, 0, 10)>> :
        v \in TimerVals, w \in TimerVals}

\* memory: V0 = a, V1 = b, I = i, a store or load, then FX65 with X = 1
MemVals == {<<234, 5>>, <<255, 0>>, <<9, 100>>}

\* in the font, at the last two font bytes, free memory, and the end of memory
IndexVals == {80, 158, 768, 4093, 4094, 4095}

MemOps ==
    {Word(15, 0, 3, 3), Word(15, 1, 3, 3), Word(15, 0, 5, 5), Word(15, 1, 5, 5),
     Word(15, 15, 5, 5), Word(15, 15, 6, 5), Word(15, 0, 2, 9)}

MemScenarios ==
    {<<Word(6, 0, 0, 0) + vp[1], Word(6, 1, 0, 0) + vp[2], Word(10, 0, 0, 0) + i,
       op, Word(15, 1, 6, 5)>> :
        vp \in MemVals, i \in IndexVals, op \in MemOps}

\* draw: VX = a, VY = b, I = i, the same DXYN twice, then two sprite rows of
\* data at 0x20A (0xFF 0xFF 0x81 0x42)
DrawRegs == {<<0, 1>>, <<15, 1>>, <<1, 15>>}

DrawCoords == {<<0, 0>>, <<60, 0>>, <<62, 30>>, <<67, 33>>, <<63, 31>>}

\* the sprite data of the ROM, glyph 0 of the font, six bytes before the end
SpriteAddrs == {522, 80, 4090}

SpriteRows == {0, 1, 5, 15}

DrawScenarios ==
    {<<Word(6, rp[1], 0, 0) + c[1], Word(6, rp[2], 0, 0) + c[2],
       Word(10, 0, 0, 0) + i, Word(13, rp[1], rp[2], n), Word(13, rp[1], rp[2], n),
       65535, 33090>> :
        rp \in DrawRegs, c \in DrawCoords, i \in SpriteAddrs, n \in SpriteRows}

\* I = 0xFFF, V0 = 0xFF, then I += V0 until VF == 1
IndexOverflowProgram ==
    <<Word(10, 15, 15, 15), Word(6, 0, 15, 15), Word(15, 0, 1, 14),
      Word(3, 15, 0, 1), Word(1, 2, 0, 4)>>

\* every sequence of at most n elements of set S
RECURSIVE SeqsUpTo(_, _)
SeqsUpTo(S, n) ==
    IF n = 0 THEN {<<>>}
    ELSE LET shorter == SeqsUpTo(S, n - 1)
         IN  shorter \cup {Append(q, w) : q \in shorter, w \in S}

\* control flow: calls of 0x202 and 0x204, return, jumps to 0x200 and 0xFFF,
\* and the clear screen
FreeWords == {8706, 8708, 238, 4608, 8191, 224}

FreePrograms == SeqsUpTo(FreeWords, MaxFreeLen)

\* a ROM of L bytes: a jump to its last even address, then 0x61 bytes
\* (0x6161 sets V1)
LongProgram(L) ==
    [i \in 1..L |->
        IF i = 1 THEN 16 + ((ProgramStart + L - 2) \div 256)
        ELSE IF i = 2 THEN (ProgramStart + L - 2) % 256
        ELSE 97]

\* ROM lengths around the capacity of memory, MemSize - 512
LongLens == (MemSize - 512 - MaxOver)..(MemSize - 512 + MaxOver)

Programs ==
    {Assemble(ws) : ws \in RegScenarios \cup TimerScenarios \cup MemScenarios
                            \cup DrawScenarios \cup FreePrograms
                            \cup {IndexOverflowProgram}}
    \cup {LongProgram(L) : L \in LongLens}

----------------------------------------------------------------------------
(* The driver: main reads the ROM, calls load_program, then calls step     *)
(* and tick_timers in a loop with the key snapshot of the moment.          *)

\* rand::random::<u8>() is called in the 0xc arm only
RandDraws(self) ==
    IF FetchInBounds(self) /\ Decode(self).first_half_byte = 12
    THEN RandBytes
    ELSE {0}

NoCall == [op |-> "none", keypresses |-> NoKeys, outcome |-> "none"]

Init ==
    /\ proc = "start"
    /\ program \in Programs
    /\ emulator = NoEmulator
    /\ prev = NoEmulator
    /\ last_call = NoCall
    /\ panic = "none"

Load ==
    /\ proc = "start"
    /\ prev' = emulator
    /\ IF ProgramTooLarge(program)
       THEN /\ proc' = "panicked"
            /\ panic' = "ProgramTooLarge"
            /\ emulator' = emulator
            /\ last_call' = [op |-> "load_program", keypresses |-> NoKeys,
                             outcome |-> "Panic"]
       ELSE /\ proc' = "running"
            /\ panic' = "none"
            /\ emulator' = load_program(program)
            /\ last_call' = [op |-> "load_program", keypresses |-> NoKeys,
                             outcome |-> "Loaded"]
    /\ UNCHANGED program

Step ==
    /\ proc = "running"
    /\ \E keypresses \in KeySnapshots, rnd \in RandDraws(emulator) :
          LET r == step(emulator, keypresses, rnd)
          IN  /\ Len(r.chip.stack) <= MaxStack
              /\ emulator' = r.chip
              /\ prev' = emulator
              /\ last_call' = [op |-> "step", keypresses |-> keypresses,
                               outcome |-> r.outcome]
              /\ proc' = IF r.outcome = "Panic" THEN "panicked" ELSE "running"
              /\ panic' = r.panic
    /\ UNCHANGED program

TickTimers ==
    /\ proc = "running"
    /\ emulator' = tick_timers(emulator)
    /\ prev' = emulator
    /\ last_call' = [op |-> "tick_timers", keypresses |-> NoKeys,
                     outcome |-> "none"]
    /\ UNCHANGED <<proc, program, panic>>

Next == Load \/ Step \/ TickTimers

Spec == Init /\ [][Next]_vars

----------------------------------------------------------------------------
(* Vocabulary of the properties.                                           *)

\* the last call was a step whose fetch succeeded: an instruction was decoded
Executed == last_call.op = "step" /\ FetchInBounds(prev)

\* the instruction the last step decoded (meaningful when Executed)
LastInst == Decode(prev)

\* the last step decoded an instruction of family a (its first half-byte)
ExecutedFamily(a) == Executed /\ LastInst.first_half_byte = a

\* the last step decoded 8XYN with this N
Executed8(n) == ExecutedFamily(8) /\ LastInst.n = n

\* the last step decoded FXNN with this NN
ExecutedF(nn) == ExecutedFamily(15) /\ LastInst.nn = nn

\* the last step decoded 00EE
ExecutedRet == ExecutedFamily(0) /\ LastInst.nnn = 238

\* VX and VY as they were before the last step
OldVX == prev.registers[LastInst.x]

OldVY == prev.registers[LastInst.y]

\* the flag register after the last call
VF == emulator.registers[15]

\* the patterns of the dispatch table of the specification
InDispatchTable(d) ==
    CASE d.first_half_byte = 0  -> d.nnn \in {224, 238}
      [] d.first_half_byte = 5  -> d.n = 0
      [] d.first_half_byte = 8  -> d.n \in {0, 1, 2, 3, 4, 5, 6, 7, 14}
      [] d.first_half_byte = 9  -> d.n = 0
      [] d.first_half_byte = 14 -> d.nn \in {158, 161}
      [] d.first_half_byte = 15 -> d.nn \in {7, 10, 21, 24, 30, 41, 51, 85, 101}
      [] OTHER                  -> TRUE

\* the pixels a sprite of n rows at index_reg covers when drawn at (vx, vy):
\* set bits, leftmost bit first, clipped at the right and bottom edges
SpritePixels(self, vx, vy, n) ==
    {yx \in {<<(vy % DisplayHeight) + r, (vx % DisplayWidth) + c>> :
                r \in 0..(n - 1), c \in 0..7} :
        /\ yx[1] < DisplayHeight
        /\ yx[2] < DisplayWidth
        /\ Bit(self.memory[self.index_reg + (yx[1] - (vy % DisplayHeight))],
               7 - (yx[2] - (vx % DisplayWidth))) = 1}

----------------------------------------------------------------------------
(* C1..C10.                                                                *)

\* C1: for every program of length L <= 3584, load_program succeeds and yields
\* memory[0x200 .. 0x200+L) = the program, glyph g at 0x050 + 5*g for the 16
\* glyphs, every other byte 0, pc = 0x200, index register 0, both timers 0,
\* all registers 0, an empty stack and a display with every pixel off.
C1_LoadYieldsInitialState ==
    (last_call.op = "load_program" /\ Len(program) <= 3584) =>
        /\ proc = "running"
        /\ last_call.outcome = "Loaded"
        /\ \A a \in 0..4095 :
              emulator.memory[a] =
                 IF a >= 512 /\ a < 512 + Len(program) THEN program[a - 512 + 1]
                 ELSE IF a >= 80 /\ a <= 159
                      THEN FONTS[((a - 80) \div 5) + 1][((a - 80) % 5) + 1]
                      ELSE 0
        /\ emulator.pc = 512
        /\ emulator.index_reg = 0
        /\ emulator.delay_timer = 0
        /\ emulator.sound_timer = 0
        /\ \A r \in 0..15 : emulator.registers[r] = 0
        /\ emulator.stack = <<>>
        /\ \A y \in 0..31, x \in 0..63 : <<y, x>> \notin emulator.display

\* C1 witness: a program of exactly 3584 bytes was loaded and its last byte
\* is the last byte of memory.
C1_Witness ==
    /\ last_call.op = "load_program"
    /\ Len(program) = 3584
    /\ proc = "running"
    /\ emulator.memory[4095] = program[3584]
    /\ emulator.memory[4095] # 0

\* C2 (as claimed): loading a program longer than 3584 bytes is reported to
\* the caller as a ProgramTooLarge failure value, is not fatal to the process
\* and creates no VM state.
C2_TooLargeIsReported ==
    (last_call.op = "load_program" /\ Len(program) > 3584) =>
        /\ proc # "panicked"
        /\ last_call.outcome = "ProgramTooLarge"
        /\ emulator = NoEmulator

\* C3: 2NNN fetched at A pushes A+2 and sets pc = NNN; 00EE with a nonempty
\* stack sets pc to the top entry and removes it, leaving the entries below
\* (so returns restore the return addresses in LIFO order); no other
\* instruction and no tick changes the stack.
C3_CallReturn ==
    /\ ExecutedFamily(2) =>
          /\ emulator.stack = Append(prev.stack, prev.pc + 2)
          /\ emulator.pc = LastInst.nnn
    /\ (ExecutedRet /\ Len(prev.stack) > 0) =>
          /\ emulator.pc = prev.stack[Len(prev.stack)]
          /\ emulator.stack = SubSeq(prev.stack, 1, Len(prev.stack) - 1)
    /\ (last_call.op \in {"step", "tick_timers"}
            /\ ~ExecutedFamily(2) /\ ~ExecutedRet) =>
          emulator.stack = prev.stack

\* C3 witness: a return from a nested call: two return addresses were on the
\* stack, the inner one is the new pc and the outer one is left.
C3_Witness ==
    /\ ExecutedRet
    /\ Len(prev.stack) = 2
    /\ prev.stack[1] # prev.stack[2]
    /\ emulator.pc = prev.stack[2]
    /\ emulator.stack = <<prev.stack[1]>>

\* C4 (as claimed): a step fails only for 00EE with an empty stack, an invalid
\* opcode pattern, or FX29 with VX > 15; no fetch, sprite read, FX33, FX55 or
\* FX65 touches an address outside 0..4095.
C4_OnlyThreeFatalConditions ==
    (last_call.op = "step" /\ last_call.outcome = "Panic") =>
        panic \in {"EmptyStack", "InvalidInstruction", "InvalidVX"}

\* C5 (as claimed): a fatal condition (00EE with an empty stack, an invalid
\* opcode pattern, FX29 with VX > 15) leaves every state component as it was
\* before the step call; pc has not been advanced.
C5_FatalLeavesStateUnchanged ==
    (last_call.op = "step" /\ last_call.outcome = "Panic"
        /\ panic \in {"EmptyStack", "InvalidInstruction", "InvalidVX"}) =>
        emulator = prev

\* C6 (as claimed): every instruction word that matches no pattern of the
\* dispatch table is fatal (invalid instruction) and is not executed as
\* another instruction.
C6_UnmatchedWordIsFatal ==
    (Executed /\ ~InDispatchTable(LastInst)) =>
        /\ last_call.outcome = "Panic"
        /\ panic = "InvalidInstruction"

\* C7 (as claimed): after 8XY4, 8XY6, 8XYE, DXYN and FX1E, for every X and Y
\* (0xF included), VF holds the flag computed from the operand values read
\* before the instruction: carry, shifted-out bit, collision, overflow.
C7_FlagWrittenLast ==
    /\ Executed8(4) => VF = (IF OldVX + OldVY > 255 THEN 1 ELSE 0)
    /\ Executed8(6) => VF = OldVX % 2
    /\ Executed8(14) => VF = OldVX \div 128
    /\ ExecutedF(30) =>
          VF = (IF prev.index_reg + OldVX > 65535 THEN 1 ELSE 0)
    /\ (ExecutedFamily(13) /\ last_call.outcome # "Panic") =>
          VF = (IF SpritePixels(prev, OldVX, OldVY, LastInst.n)
                      \cap prev.display # {}
                THEN 1 ELSE 0)

\* C8 (as claimed): 8XYE with X # 0xF leaves VF = 1 if bit 7 of the old VX was
\* set and 0 otherwise, and VX = (old VX * 2) mod 256.
C8_ShiftLeft ==
    (Executed8(14) /\ LastInst.x # 15) =>
        /\ VF = (IF OldVX >= 128 THEN 1 ELSE 0)
        /\ emulator.registers[LastInst.x] = (OldVX * 2) % 256

\* C9 (as claimed): FX1E leaves the index register at (I + VX) mod 65536 and
\* VF at 1 if I + VX > 65535 and at 0 otherwise, whatever VF held before.
C9_AddToIndex ==
    ExecutedF(30) =>
        /\ emulator.index_reg = (prev.index_reg + OldVX) % 65536
        /\ VF = (IF prev.index_reg + OldVX > 65535 THEN 1 ELSE 0)

\* C10: 8XY4 with X # 0xF leaves VX = (VX + VY) mod 256 and VF = 1 exactly
\* when the unsigned sum of the old VX and VY exceeds 255, else VF = 0.
C10_AddWithCarry ==
    (Executed8(4) /\ LastInst.x # 15) =>
        /\ emulator.registers[LastInst.x] = (OldVX + OldVY) % 256
        /\ VF = (IF OldVX + OldVY > 255 THEN 1 ELSE 0)

\* C10 witness: an 8XY4 with X # 0xF whose sum exceeded 255 has set VF to 1.
C10_Witness ==
    /\ Executed8(4)
    /\ LastInst.x # 15
    /\ OldVX + OldVY > 255
    /\ VF = 1

----------------------------------------------------------------------------
(* C11..C20.                                                               *)

\* some key of the snapshot of the last call is pressed
AnyKeyPressed == \E k \in 0..15 : last_call.keypresses[k]

\* the lowest index of a pressed key of the snapshot of the last call
LowestPressed ==
    CHOOSE k \in 0..15 :
        last_call.keypresses[k] /\ \A j \in 0..(k - 1) : ~last_call.keypresses[j]

\* C11: FX0A at address A with no key pressed leaves the whole state as it was
\* (pc is A again); with a key pressed it sets VX to the lowest pressed index,
\* pc to A+2 and changes nothing else; a tick_timers call in between changes
\* only the timers.
C11_KeyWait ==
    /\ (ExecutedF(10) /\ ~AnyKeyPressed) => emulator = prev
    /\ (ExecutedF(10) /\ AnyKeyPressed) =>
          emulator = [prev EXCEPT !.pc = prev.pc + 2,
                                  !.registers[LastInst.x] = LowestPressed]
    /\ last_call.op = "tick_timers" =>
          [emulator EXCEPT !.delay_timer = prev.delay_timer,
                           !.sound_timer = prev.sound_timer] = prev

\* C11 witness: an FX0A that found keys 1 and 15 pressed stored 1 in VX and
\* went on to the next instruction.
C11_Witness ==
    /\ ExecutedF(10)
    /\ last_call.keypresses[1] /\ last_call.keypresses[15]
    /\ ~last_call.keypresses[0]
    /\ emulator.registers[LastInst.x] = 1
    /\ emulator.pc = prev.pc + 2

\* the last step was a DXYN that returned
Drew == ExecutedFamily(13) /\ last_call.outcome # "Panic"

\* the pixels under the set bits of the sprite of the last DXYN, placed at the
\* old VX and VY and clipped
Drawn == SpritePixels(prev, OldVX, OldVY, LastInst.n)

\* the instruction at pc is the instruction word the last step executed
SameInstFollows ==
    FetchInBounds(emulator) /\ Decode(emulator).inst = LastInst.inst

\* C12: DXYN with X, Y # 0xF toggles exactly the pixels under the set sprite
\* bits inside the clipped area, and VF ends as 1 exactly when a lit pixel was
\* turned off; when the same DXYN follows, executing it puts the display back
\* as it was before the first draw, and if no target pixel was lit before the
\* first draw (and the sprite has a set bit in the area) VF is 0 after the
\* first draw and 1 after the second.
C12_XorDraw ==
    (Drew /\ LastInst.x # 15 /\ LastInst.y # 15) =>
        /\ emulator.display = (prev.display \ Drawn) \cup (Drawn \ prev.display)
        /\ VF = (IF Drawn \cap prev.display # {} THEN 1 ELSE 0)
        /\ SameInstFollows =>
              LET second == step(emulator, last_call.keypresses, 0)
              IN  /\ second.outcome = "Updated"
                  /\ second.chip.display = prev.display
                  /\ (Drawn # {} /\ Drawn \cap prev.display = {}) =>
                        /\ VF = 0
                        /\ second.chip.registers[15] = 1

\* C12 witness: the second of two equal draws: it found exactly its own
\* pixels lit, turned them all off and set VF.
C12_Witness ==
    /\ Drew
    /\ LastInst.x # 15 /\ LastInst.y # 15
    /\ Drawn # {}
    /\ prev.display = Drawn
    /\ prev.registers[15] = 0
    /\ emulator.display = {}
    /\ VF = 1

\* the pixels whose state the last call changed
ChangedPixels ==
    (emulator.display \ prev.display) \cup (prev.display \ emulator.display)

\* the pixel is inside the clipped area of a sprite of n rows drawn at the
\* coordinates vx, vy
InClippedArea(yx, vx, vy, n) ==
    /\ yx[2] >= vx % 64
    /\ yx[2] <= (IF (vx % 64) + 7 < 63 THEN (vx % 64) + 7 ELSE 63)
    /\ yx[1] >= vy % 32
    /\ yx[1] <= (IF (vy % 32) + n - 1 < 31 THEN (vy % 32) + n - 1 ELSE 31)

\* C13 (as claimed): with x0 = VX mod 64 and y0 = VY mod 32, DXYN changes no
\* pixel outside columns x0 .. min(x0+7, 63) and rows y0 .. min(y0+N-1, 31),
\* no pixel is ever at a column >= 64 or a row >= 32, and N = 0 changes no
\* pixel.
C13_Clipping ==
    Drew =>
        /\ \A yx \in ChangedPixels : InClippedArea(yx, OldVX, OldVY, LastInst.n)
        /\ \A yx \in emulator.display :
              yx[1] \in 0..31 /\ yx[2] \in 0..63
        /\ LastInst.n = 0 => ChangedPixels = {}

\* the larger of d - 1 and 0
DecrementedTimer(d) == IF d >= 1 THEN d - 1 ELSE 0

\* C14: tick_timers decrements the delay timer and the sound timer by
\* exactly 1 each if nonzero, leaves a zero timer at zero, and changes no
\* other component; a step changes the delay timer only by FX15 and the sound
\* timer only by FX18, so that k ticks without FX15/FX18 take a timer from d
\* to max(d - k, 0) and a timer at 0 stays 0.
C14_TickTimers ==
    /\ last_call.op = "tick_timers" =>
          emulator =
             [prev EXCEPT !.delay_timer = DecrementedTimer(prev.delay_timer),
                          !.sound_timer = DecrementedTimer(prev.sound_timer)]
    /\ last_call.op = "step" =>
          /\ emulator.delay_timer # prev.delay_timer =>
                ExecutedF(21) /\ emulator.delay_timer = OldVX
          /\ emulator.sound_timer # prev.sound_timer =>
                ExecutedF(24) /\ emulator.sound_timer = OldVX

C14_Witness ==
    /\ last_call.op = "tick_timers"
    /\ prev.delay_timer = 1
    /\ prev.sound_timer = 0
    /\ emulator.delay_timer = 0
    /\ emulator.sound_timer = 0

\* a Chip8 value exists: load_program succeeded
Loaded == proc = "running" \/ (proc = "panicked" /\ panic # "ProgramTooLarge")

\* C15: in every reachable state is_sound_on() is true exactly when the sound
\* timer is nonzero: false after load, true after FX18 with VX > 0, and after
\* a tick true exactly when the timer was above 1, so that it is false again
\* after exactly VX ticks and a tick from 1 makes the next read false.
C15_SoundOn ==
    Loaded =>
        /\ is_sound_on(emulator) = (emulator.sound_timer # 0)
        /\ last_call.op = "load_program" => ~is_sound_on(emulator)
        /\ (ExecutedF(24) /\ OldVX > 0) => is_sound_on(emulator)
        /\ last_call.op = "tick_timers" =>
              is_sound_on(emulator) = (prev.sound_timer > 1)

C15_Witness ==
    /\ last_call.op = "tick_timers"
    /\ prev.sound_timer = 1
    /\ is_sound_on(prev)
    /\ ~is_sound_on(emulator)

\* the last step decoded 00E0 or DXYN
ExecutedDisplayInst ==
    Executed /\ (LastInst.inst = 224 \/ LastInst.first_half_byte = 13)

\* C16: a step that returns NotUpdated leaves the display as it was; the
\* display is changed only by 00E0 and DXYN, never by another instruction or
\* by tick_timers; a step that returns, returns Updated for every 00E0 and
\* every DXYN, even when no pixel changed, and NotUpdated for every other
\* instruction.
C16_DisplayState ==
    /\ last_call.outcome = "NotUpdated" => emulator.display = prev.display
    /\ last_call.op = "tick_timers" => emulator.display = prev.display
    /\ last_call.op = "step" =>
          /\ emulator.display # prev.display => ExecutedDisplayInst
          /\ last_call.outcome # "Panic" =>
                (last_call.outcome = "Updated") = ExecutedDisplayInst

C16_Witness ==
    /\ Drew
    /\ LastInst.n = 0
    /\ emulator.display = prev.display
    /\ last_call.outcome = "Updated"

\* glyph g is at 0x050 + 5*g, for the 16 glyphs
FontPresent(self) ==
    \A g \in 0..15 : \A i \in 0..4 :
        self.memory[FontStart + 5 * g + i] = FONTS[g + 1][i + 1]

\* the bytes of [0x050, 0x09F]
FontRegion(self) == [a \in FontStart..(FontStart + 79) |-> self.memory[a]]

\* the addresses lo..hi meet [0x050, 0x09F]
MeetsFont(lo, hi) == lo <= FontStart + 79 /\ hi >= FontStart

\* C17 (as claimed): in every state reachable from a successful load by step
\* and tick_timers calls the font table is present at [0x050, 0x09F].
C17_FontAlwaysPresent == Loaded => FontPresent(emulator)

\* C17 (amended): the font table is present at [0x050, 0x09F] after a
\* successful load, and a call changes a byte of [0x050, 0x09F] only if it is
\* a step executing FX33 with [I, I+2], or FX55 with [I, I+X], meeting that
\* range.
C17_FontPresentUnlessOverwritten ==
    /\ (last_call.op = "load_program" /\ Loaded) => FontPresent(emulator)
    /\ (last_call.op \in {"step", "tick_timers"}
          /\ FontRegion(emulator) # FontRegion(prev)) =>
          \/ ExecutedF(51) /\ MeetsFont(prev.index_reg, prev.index_reg + 2)
          \/ ExecutedF(85)
               /\ MeetsFont(prev.index_reg, prev.index_reg + LastInst.x)

\* FX55 stored registers outside the font, which is still in place
C17_Witness ==
    /\ ExecutedF(85)
    /\ last_call.outcome = "NotUpdated"
    /\ ~MeetsFont(prev.index_reg, prev.index_reg + LastInst.x)
    /\ emulator.memory # prev.memory
    /\ FontPresent(prev)
    /\ FontPresent(emulator)

\* C18 (as claimed): in every state reachable from a successful load the
\* program counter points into memory: 0 <= pc and pc + 1 <= 4095.
C18_PcInMemory ==
    Loaded => (emulator.pc >= 0 /\ emulator.pc + 1 <= MemSize - 1)

\* key VX of the snapshot of the last step is a key and is pressed
KeyVXPressed == OldVX < 16 /\ last_call.keypresses[OldVX]

\* the state before the last step, after its fetch
Fetched == [prev EXCEPT !.pc = prev.pc + 2]

\* C19: for every VX in 0..255 and every key snapshot neither EX9E nor EXA1
\* is fatal; EX9E advances pc by 4 instead of 2 exactly when VX < 16 and key
\* VX is pressed, EXA1 exactly when VX >= 16 or key VX is not pressed, and
\* nothing else changes; in each such state exactly one of the two would
\* skip.
C19_KeySkips ==
    /\ (ExecutedFamily(14) /\ LastInst.nn = 158) =>
          /\ last_call.outcome = "NotUpdated"
          /\ emulator =
                [prev EXCEPT !.pc = prev.pc + (IF KeyVXPressed THEN 4 ELSE 2)]
    /\ (ExecutedFamily(14) /\ LastInst.nn = 161) =>
          /\ last_call.outcome = "NotUpdated"
          /\ emulator =
                [prev EXCEPT !.pc = prev.pc + (IF KeyVXPressed THEN 2 ELSE 4)]
    /\ (ExecutedFamily(14) /\ LastInst.nn \in {158, 161}) =>
          LET pressed    == op_EX9E(Fetched, LastInst, last_call.keypresses)
              notpressed == op_EXA1(Fetched, LastInst, last_call.keypresses)
          IN  /\ pressed.outcome # "Panic"
              /\ notpressed.outcome # "Panic"
              /\ (pressed.chip.pc = prev.pc + 4)
                    # (notpressed.chip.pc = prev.pc + 4)

\* EX9E with VX = 255 while key 15 is held does not skip
C19_Witness ==
    /\ ExecutedFamily(14)
    /\ LastInst.nn = 158
    /\ OldVX = 255
    /\ last_call.keypresses[15]
    /\ emulator.pc = prev.pc + 2

\* C20: FX29 with VX in 0..15 sets the index register to 0x050 + 5*VX and
\* changes nothing else but pc; with VX > 15 it is fatal and does not modify
\* the index register.
C20_FontAddress ==
    ExecutedF(41) =>
        IF OldVX <= 15
        THEN /\ last_call.outcome = "NotUpdated"
             /\ emulator = [prev EXCEPT !.pc = prev.pc + 2,
                                        !.index_reg = 80 + 5 * OldVX]
        ELSE /\ last_call.outcome = "Panic"
             /\ panic = "InvalidVX"
             /\ emulator.index_reg = prev.index_reg

\* FX29 with VX = 7 left the index register at glyph 7, away from where it was
C20_Witness ==
    /\ ExecutedF(41)
    /\ OldVX = 7
    /\ prev.index_reg # 115
    /\ emulator.index_reg = 115
    /\ emulator.pc = prev.pc + 2

----------------------------------------------------------------------------
(* C21..C27.                                                               *)

\* h, t, o are the decimal digits of v
IsDecimalDigits(h, t, o, v) ==
    /\ h \in 0..2
    /\ t \in 0..9
    /\ o \in 0..9
    /\ 100 * h + 10 * t + o = v

\* C21: FX33 with I + 2 <= 4095 leaves the hundreds, tens and ones digits of
\* VX at memory[I], memory[I+1], memory[I+2], changes no other memory byte,
\* no register and not the index register; the three bytes written are the
\* decimal digits for every VX in 0..255.
C21_Bcd ==
    (ExecutedF(51) /\ prev.index_reg + 2 <= MemSize - 1) =>
        LET I == prev.index_reg
        IN  /\ last_call.outcome = "NotUpdated"
            /\ IsDecimalDigits(emulator.memory[I], emulator.memory[I + 1],
                               emulator.memory[I + 2], OldVX)
            /\ emulator =
                  [prev EXCEPT !.pc = prev.pc + 2,
                               !.memory = [a \in 0..(MemSize - 1) |->
                                   IF a \in I..(I + 2) THEN emulator.memory[a]
                                   ELSE prev.memory[a]]]
            /\ \A v \in Byte :
                  LET r == op_FX33([Fetched EXCEPT !.registers[LastInst.x] = v],
                                   LastInst)
                  IN  /\ r.outcome = "NotUpdated"
                      /\ IsDecimalDigits(r.chip.memory[I], r.chip.memory[I + 1],
                                         r.chip.memory[I + 2], v)

\* FX33 with VX = 234 and I = 0x300 left 2, 3, 4 at 0x300..0x302
C21_Witness ==
    /\ ExecutedF(51)
    /\ OldVX = 234
    /\ prev.index_reg = 768
    /\ emulator.memory[768] = 2
    /\ emulator.memory[769] = 3
    /\ emulator.memory[770] = 4
    /\ emulator.index_reg = 768

\* memory[I .. I+X] of the state before the last step exists
RangeInMemory == prev.index_reg + LastInst.x <= MemSize - 1

\* C22: FX55 copies V0..VX to memory[I .. I+X] and changes no other memory
\* byte and no register; FX65 copies memory[I .. I+X] into V0..VX and changes
\* no register above VX and no memory; neither modifies the index register;
\* FX65 with the same X right after an FX55 leaves all registers as they were
\* before the FX55.
C22_StoreLoad ==
    /\ (ExecutedF(85) /\ RangeInMemory) =>
          LET I == prev.index_reg
              reload == op_FX65([emulator EXCEPT !.pc = emulator.pc + 2],
                                LastInst)
          IN  /\ last_call.outcome = "NotUpdated"
              /\ emulator =
                    [prev EXCEPT !.pc = prev.pc + 2,
                                 !.memory = [a \in 0..(MemSize - 1) |->
                                     IF a \in I..(I + LastInst.x)
                                     THEN prev.registers[a - I]
                                     ELSE prev.memory[a]]]
              /\ reload.outcome = "NotUpdated"
              /\ reload.chip.registers = prev.registers
              /\ reload.chip.index_reg = prev.index_reg
    /\ (ExecutedF(101) /\ RangeInMemory) =>
          LET I == prev.index_reg
          IN  /\ last_call.outcome = "NotUpdated"
              /\ emulator =
                    [prev EXCEPT !.pc = prev.pc + 2,
                                 !.registers = [i \in RegIdx |->
                                     IF i <= LastInst.x THEN prev.memory[I + i]
                                     ELSE prev.registers[i]]]

\* F155 stored V0 = 234 and V1 = 5 at 0x300 and 0x301 and nothing at 0x302
C22_Witness ==
    /\ ExecutedF(85)
    /\ LastInst.x = 1
    /\ prev.index_reg = 768
    /\ prev.registers[0] = 234
    /\ prev.registers[1] = 5
    /\ prev.memory[768] = 0
    /\ emulator.memory[768] = 234
    /\ emulator.memory[769] = 5
    /\ emulator.memory[770] = 0
    /\ emulator.index_reg = 768

\* F165 loaded V0 and V1 from memory that differed from them
C22_WitnessLoad ==
    /\ ExecutedF(101)
    /\ RangeInMemory
    /\ prev.registers[0] # prev.memory[prev.index_reg]
    /\ emulator.registers[0] = prev.memory[prev.index_reg]
    /\ emulator.registers[1] = prev.memory[prev.index_reg + 1]

\* C23 (as claimed): 8XY6 with X # 0xF leaves VF = bit 0 of the old VX and
\* VX = floor(old VX / 2), and VY is not modified.
C23_ShiftRight ==
    (Executed8(6) /\ LastInst.x # 15) =>
        /\ VF = OldVX % 2
        /\ emulator.registers[LastInst.x] = OldVX \div 2
        /\ emulator.registers[LastInst.y] = OldVY

\* C23 (amended): 8XY6 with X # 0xF leaves VF = bit 0 of the old VX and
\* VX = floor(old VX / 2), for every VX in 0..255; no register other than VX
\* and VF changes, so VY keeps its value unless Y = X or Y = 0xF; and unless
\* Y = X the result does not depend on VY.
C23_ShiftRightIgnoresY ==
    (Executed8(6) /\ LastInst.x # 15) =>
        /\ last_call.outcome = "NotUpdated"
        /\ emulator =
              [prev EXCEPT !.pc = prev.pc + 2,
                           !.registers = [i \in RegIdx |->
                               IF i = LastInst.x THEN OldVX \div 2
                               ELSE IF i = 15 THEN OldVX % 2
                               ELSE prev.registers[i]]]
        /\ \A v \in Byte :
              LET r == op_8XY6([Fetched EXCEPT !.registers[LastInst.x] = v],
                               LastInst)
              IN  /\ r.chip.registers[15] = v % 2
                  /\ r.chip.registers[LastInst.x] = v \div 2
        /\ LastInst.y # LastInst.x =>
              \A v \in Byte :
                 LET r == op_8XY6([Fetched EXCEPT !.registers[LastInst.y] = v],
                                  LastInst)
                 IN  /\ r.chip.registers[15] = VF
                     /\ r.chip.registers[LastInst.x] =
                           emulator.registers[LastInst.x]

\* 8016 with V0 = 3 and V1 = 200 left V0 = 1, VF = 1 and V1 = 200
C23_Witness ==
    /\ Executed8(6)
    /\ LastInst.x = 0
    /\ LastInst.y = 1
    /\ OldVX = 3
    /\ OldVY = 200
    /\ prev.registers[15] = 0
    /\ VF = 1
    /\ emulator.registers[0] = 1
    /\ emulator.registers[1] = 200

\* C24 (as claimed): DXYN draws from the register values held before the
\* instruction, also when X = 0xF or Y = 0xF: the pixels it toggles are the
\* set sprite bits placed with every row starting at column (old VX) mod 64
\* and the first row at (old VY) mod 32.
C24_CoordinatesBeforeReset ==
    Drew => ChangedPixels = Drawn

\* C25: 8XY5 sets VX to (VX - VY) mod 256 and 8XY7 sets VX to (VY - VX) mod
\* 256, from the values before the instruction; nothing but VX and pc
\* changes, so with X # 0xF VF is not written: no borrow flag is produced.
C25_SubtractNoBorrow ==
    /\ Executed8(5) =>
          /\ last_call.outcome = "NotUpdated"
          /\ emulator =
                [prev EXCEPT !.pc = prev.pc + 2,
                             !.registers[LastInst.x] = (OldVX - OldVY) % 256]
          /\ LastInst.x # 15 => VF = prev.registers[15]
          /\ LastInst.y # LastInst.x =>
                \A v \in Byte :
                   op_8XY5([Fetched EXCEPT !.registers[LastInst.y] = v],
                           LastInst).chip.registers =
                      [Fetched.registers EXCEPT
                          ![LastInst.y] = v,
                          ![LastInst.x] = (OldVX - v) % 256]
    /\ Executed8(7) =>
          /\ last_call.outcome = "NotUpdated"
          /\ emulator =
                [prev EXCEPT !.pc = prev.pc + 2,
                             !.registers[LastInst.x] = (OldVY - OldVX) % 256]
          /\ LastInst.x # 15 => VF = prev.registers[15]
          /\ LastInst.y # LastInst.x =>
                \A v \in Byte :
                   op_8XY7([Fetched EXCEPT !.registers[LastInst.y] = v],
                           LastInst).chip.registers =
                      [Fetched.registers EXCEPT
                          ![LastInst.y] = v,
                          ![LastInst.x] = (v - OldVX) % 256]

\* 8015 with V0 = 7 and V1 = 0: no borrow, V0 stays 7 and VF stays 0
C25_Witness ==
    /\ Executed8(5)
    /\ LastInst.x = 0
    /\ LastInst.y = 1
    /\ OldVX = 7
    /\ OldVY = 0
    /\ emulator.registers[0] = 7
    /\ prev.registers[15] = 0
    /\ VF = 0

\* 8017 with V0 = 3 and V1 = 200 gives 197; 8015 with the same values wraps
\* to 59
C25_WitnessWrap ==
    \/ Executed8(7) /\ LastInst.x = 0 /\ LastInst.y = 1 /\ OldVX = 3
         /\ OldVY = 200 /\ emulator.registers[0] = 197
    \/ Executed8(5) /\ LastInst.x = 0 /\ LastInst.y = 1 /\ OldVX = 3
         /\ OldVY = 200 /\ emulator.registers[0] = 59 /\ VF = 0

\* the condition of the conditional skip the last step decoded
SkipCondition ==
    CASE LastInst.first_half_byte = 3 -> OldVX = LastInst.nn
      [] LastInst.first_half_byte = 4 -> OldVX # LastInst.nn
      [] LastInst.first_half_byte = 5 -> OldVX = OldVY
      [] LastInst.first_half_byte = 9 -> OldVX # OldVY

\* the last step decoded 1NNN, BNNN, 2NNN, 00EE, a skip, or an FX0A that
\* found no key pressed
ExecutedPcInst ==
    \/ LastInst.first_half_byte \in {1, 2, 11, 3, 4, 5, 9, 14}
    \/ ExecutedRet
    \/ ExecutedF(10) /\ ~AnyKeyPressed

\* C26: 3XNN, 4XNN, 5XY0 and 9XY0 fetched at A leave pc = A + 4 when VX = NN,
\* VX # NN, VX = VY, VX # VY respectively and A + 2 otherwise, and change
\* nothing else; every instruction other than jumps, calls, returns, skips
\* and an FX0A with no key pressed leaves pc = A + 2.
C26_Skips ==
    /\ (Executed /\ LastInst.first_half_byte \in {3, 4, 5, 9}
          /\ InDispatchTable(LastInst)) =>
          /\ last_call.outcome = "NotUpdated"
          /\ emulator =
                [prev EXCEPT !.pc = prev.pc + (IF SkipCondition THEN 4 ELSE 2)]
    /\ (Executed /\ InDispatchTable(LastInst) /\ ~ExecutedPcInst) =>
          emulator.pc = prev.pc + 2

\* 4X01 with VX # 1 skipped, and nothing but pc changed
C26_Witness ==
    /\ ExecutedFamily(4)
    /\ LastInst.nn = 1
    /\ OldVX = 255
    /\ emulator = [prev EXCEPT !.pc = prev.pc + 4]

\* the other skips, taken and not taken, and a plain instruction
C26_WitnessOthers ==
    \/ ExecutedFamily(3) /\ OldVX = LastInst.nn /\ emulator.pc = prev.pc + 4
    \/ ExecutedFamily(5) /\ LastInst.n = 0 /\ LastInst.x # LastInst.y
         /\ OldVX = OldVY /\ emulator.pc = prev.pc + 4
    \/ ExecutedFamily(9) /\ LastInst.n = 0 /\ OldVX = OldVY
         /\ emulator.pc = prev.pc + 2

\* the instruction at pc is FX07, FX15 or FX18
TimerInstNext ==
    /\ Decode(emulator).first_half_byte = 15
    /\ Decode(emulator).nn \in {7, 21, 24}

\* timer values a step is tried with
ProbeTimers == {0, 255}

\* C27: in every reachable state, for every key snapshot and random byte and
\* every instruction at pc other than FX07, FX15 and FX18, step then
\* tick_timers yields the same state as tick_timers then step, and the step
\* fails in one order exactly when it fails in the other; such a step neither
\* reads nor writes the timers: with other timer values it does the same and
\* leaves them as they are.
C27_StepTickIndependent ==
    (proc = "running" /\ FetchInBounds(emulator) /\ ~TimerInstNext) =>
        \A keypresses \in KeySnapshots, rnd \in RandDraws(emulator) :
           LET first  == step(emulator, keypresses, rnd)
               second == step(tick_timers(emulator), keypresses, rnd)
           IN  /\ second.outcome = first.outcome
               /\ second.panic = first.panic
               /\ first.outcome # "Panic" =>
                     second.chip = tick_timers(first.chip)
               /\ \A t \in ProbeTimers :
                     LET probe == step([emulator EXCEPT !.delay_timer = t,
                                                        !.sound_timer = t],
                                       keypresses, rnd)
                     IN  /\ probe.outcome = first.outcome
                         /\ probe.chip = [first.chip EXCEPT !.delay_timer = t,
                                                            !.sound_timer = t]

\* after a tick that took the delay timer from 3 to 2, 61NN is next: the
\* tick and the step that loads V1 give the same state in either order
C27_Witness ==
    /\ last_call.op = "tick_timers"
    /\ prev.delay_timer = 3
    /\ emulator.delay_timer = 2
    /\ FetchInBounds(emulator)
    /\ Decode(emulator).first_half_byte = 6
    /\ step(emulator, NoKeys, 0).chip.registers # emulator.registers
    /\ step(emulator, NoKeys, 0).chip = tick_timers(step(prev, NoKeys, 0).chip)

====
